---- MODULE Spec2Model ----
(***************************************************************************)
(* Model of bls-api-explorer (src/app.py): a Streamlit page whose script   *)
(* main() re-executes top to bottom on every user interaction.  One action *)
(* of the model is one execution of main() (a "render pass"), triggered by *)
(* pressing 'Get Data', by changing the survey selectbox, or by a plain    *)
(* re-run.  Text values the code manipulates (API keys, series ids,        *)
(* picklist entries) are sequences of one-character strings, so strip(),   *)
(* split(':') and the f-string formatting are computed, not assumed.       *)
(***************************************************************************)
EXTENDS Integers, Sequences, FiniteSets, TLC

VARIABLES secrets, metadata, session_state, widgets, out, last_submission,
          balloons_since_submit

vars == <<secrets, metadata, session_state, widgets, out, last_submission,
          balloons_since_submit>>

-----------------------------------------------------------------------------
(* Bounds of the model *)

\* widest year range of the survey whose bounds are drawn at start-up
MaxYearSpan == 6
\* cap of the counter of balloon animations since the last submission
MaxBalloons == 2

-----------------------------------------------------------------------------
(* Text helpers *)

\* all sequences over S of length at most n
SeqsUpTo(S, n) == UNION {[1..k -> S] : k \in 0..n}

\* texts the user leaves in the API-key field: empty, blank, and a key with
\* surrounding blanks
KeyInputs == {<<>>, <<" ">>, <<" ", "k", " ">>}

IsSpace(c) == c = " "

RECURSIVE LStrip(_)
LStrip(s) == IF s = <<>> THEN s
             ELSE IF IsSpace(Head(s)) THEN LStrip(Tail(s)) ELSE s

RECURSIVE RStrip(_)
RStrip(s) == IF s = <<>> THEN s
             ELSE IF IsSpace(s[Len(s)]) THEN RStrip(SubSeq(s, 1, Len(s) - 1))
             ELSE s

\* str.strip()
Strip(s) == RStrip(LStrip(s))

\* Python None, distinct from every text value
None == <<"None">>

\* x or y, for text values: x when it is non-empty
Or(x, y) == IF x # <<>> THEN x ELSE y

SplitColonLast(s) ==
    IF \E i \in 1..Len(s) : s[i] = ":"
    THEN LET i == CHOOSE j \in 1..Len(s) :
                      s[j] = ":" /\ \A k \in (j + 1)..Len(s) : s[k] # ":"
         IN SubSeq(s, 1, i - 1)
    ELSE s

\* s.split(':')[0]
SplitColonFirst(s) ==
    IF \E i \in 1..Len(s) : s[i] = ":"
    THEN LET i == CHOOSE j \in 1..Len(s) :
                      s[j] = ":" /\ \A k \in 1..(j - 1) : s[k] # ":"
         IN SubSeq(s, 1, i - 1)
    ELSE s

\* f"{series_id}: {title}"
FormatEntry(series_id, title) == series_id \o <<":", " ">> \o title

\* the placeholder shown in place of the shared key
Placeholder == <<"your_api_key">>

-----------------------------------------------------------------------------
(* Configuration and the external client's catalog and metadata *)

\* st.secrets.get(key, default)
SecretsGet(key, default) ==
    IF key \in DOMAIN secrets THEN secrets[key] ELSE default

\* the secrets file: no entry, an empty key, or a key
SecretsChoices ==
    {<<>>} \cup {[k \in {"bls_api_key"} |-> v] : v \in {<<>>, <<"k">>}}

\* get_surveys(): abbreviation -> full name
load_surveys == [CE |-> "Employment", LN |-> "LaborForce"]

\* sorted(list(datasets.keys()))
options_survey == <<"CE", "LN">>

\* get_survey_metadata("Employment"): the bounds 1990..2024, a series whose
\* title holds colons and a series without title
CEMetadata ==
    [survey_minimum_year |-> 1990, survey_maximum_year |-> 2024,
     series |-> << [id |-> <<"C", "1">>, title |-> <<"a", ":", "b", ":">>],
                   [id |-> <<"C", "2">>] >>]

\* get_survey_metadata("LaborForce") for a survey of span + 1 years, with a
\* series whose title starts with a colon
LNMetadata(span) ==
    [survey_minimum_year |-> 2023 - span, survey_maximum_year |-> 2023,
     series |-> << [id |-> <<"L", "1">>, title |-> <<":", "t">>] >>]

\* what get_survey_metadata returns for every survey name, as drawn at start-up
MetadataChoices ==
    {[n \in {"Employment", "LaborForce"} |->
        IF n = "Employment" THEN CEMetadata ELSE LNMetadata(span)]
     : span \in 0..MaxYearSpan}

load_metadata(survey_name) == metadata[survey_name]

\* create_survey_picklist: the selected abbreviation and its full name
create_survey_picklist(datasets, selected) == <<selected, datasets[selected]>>

\* prepare_series_picklist
prepare_series_picklist(md) ==
    [i \in 1..Len(md.series) |->
        FormatEntry(md.series[i].id,
                    IF "title" \in DOMAIN md.series[i]
                    THEN md.series[i].title ELSE <<>>)]

-----------------------------------------------------------------------------
(* The session store and the external data client *)

\* st.session_state: the keys it holds and their values (the value of a key
\* it does not hold is never read)
EmptySession ==
    [keys |-> {}, user_registrationkey |-> <<>>, bls_data |-> <<>>,
     bls_log |-> <<>>, bls_params |-> <<>>, show_balloons |-> FALSE]

\* k in st.session_state
Has(ss, k) == k \in ss.keys

\* st.session_state[k] = v
Put(ss, k, v) == [ss EXCEPT ![k] = v, !.keys = @ \cup {k}]

\* st.session_state.get(k, default)
Get(ss, k, default) == IF Has(ss, k) THEN ss[k] ELSE default

\* a pandas DataFrame is the sequence of its rows
Tables == {<<>>, <<"row">>}

\* DataFrame.empty
Empty(df) == Len(df) = 0

\* isinstance(x, pd.DataFrame)
IsDataFrame(x) == x # None

\* what one call of get_bls_data does: it raises, or returns (data, log)
FetchOutcomes ==
    {[raises |-> TRUE, data |-> <<>>, log |-> <<>>]}
    \cup {[raises |-> FALSE, data |-> d, log |-> l] : d \in Tables, l \in Tables}

NoFetch == [raises |-> FALSE, data |-> <<>>, log |-> <<>>]

-----------------------------------------------------------------------------
(* display_api_query_builder *)

\* lines 192-201: the stored user key after the text input was read
store_user_key(ss, user_registrationkey) ==
    LET ss1 == IF ~Has(ss, "user_registrationkey")
               THEN Put(ss, "user_registrationkey", <<>>) ELSE ss
    IN IF Strip(user_registrationkey) # <<>>
          /\ Strip(user_registrationkey) # ss1["user_registrationkey"]
       THEN Put(ss1, "user_registrationkey", Strip(user_registrationkey))
       ELSE ss1

\* line 204: the key the builder returns
final_registrationkey(ss) ==
    Or(ss["user_registrationkey"], SecretsGet("bls_api_key", <<>>))

slider_default_short(minimum_year, maximum_year) ==
    <<maximum_year - 4, maximum_year>>

\* line 208: the default value handed to st.slider
slider_default(minimum_year, maximum_year) ==
    <<maximum_year - 5, maximum_year>>

\* st.slider raises when the value lies outside [min_value, max_value]
slider_accepts(minimum_year, maximum_year, value) ==
    /\ minimum_year <= value[1]
    /\ value[1] <= value[2]
    /\ value[2] <= maximum_year

\* line 213: the pre-selected entry of the multiselect
multiselect_default(series_picklist) == <<series_picklist[1]>>

\* line 219: the ids of the selected entries
extract_seriesids(selected_seriesids) ==
    [i \in 1..Len(selected_seriesids) |-> SplitColonFirst(selected_seriesids[i])]

\* ordered selections without repetition the multiselect can hold
Selections(series_picklist) ==
    {s \in SeqsUpTo(DOMAIN series_picklist, Len(series_picklist)) :
        \A i, j \in 1..Len(s) : i # j => s[i] # s[j]}

SelectedEntries(series_picklist, s) ==
    [i \in 1..Len(s) |-> series_picklist[s[i]]]

\* year ranges the slider holds at submission: the user leaves it where the
\* page put it
YearChoices(minimum_year, maximum_year) ==
    {slider_default(minimum_year, maximum_year)}

-----------------------------------------------------------------------------
(* display_output and display_code *)

keep_balloons(ss) == ss

\* line 241: the flag is cleared once the animation was shown
consume_balloons(ss) == Put(ss, "show_balloons", FALSE)

\* display_output: the elements it renders and the session state it leaves
display_output(ss, data, log) ==
    IF ~Empty(log)
    THEN [rendered |-> {"log"}, ss |-> ss]
    ELSE LET balloons == Get(ss, "show_balloons", FALSE)
         IN [rendered |-> (IF balloons THEN {"balloons"} ELSE {})
                          \cup {"banner", "data"}
                          \cup (IF IsDataFrame(data) THEN {"csv"} ELSE {}),
             ss |-> IF balloons THEN consume_balloons(ss) ELSE ss]

\* line 300: the key shown in the code examples
api_key_to_show(registrationkey) ==
    IF registrationkey = SecretsGet("bls_api_key", None)
    THEN Placeholder ELSE registrationkey

\* display_code: the panels are rendered when the data table has rows
display_code(data, registrationkey) ==
    IF ~Empty(data)
    THEN [rendered |-> {"code"}, key |-> api_key_to_show(registrationkey)]
    ELSE [rendered |-> {}, key |-> <<>>]

-----------------------------------------------------------------------------
(* main *)

fetch_always(submitted) == TRUE

\* line 418: the external call is made when the form was submitted
fetch_requested(submitted) == submitted

\* lines 421-426: the request handed to get_bls_data
Request(seriesids, startyear, endyear, registrationkey) ==
    [seriesids |-> seriesids, catalog |-> TRUE, startyear |-> startyear,
     endyear |-> endyear, registrationkey |-> registrationkey,
     return_logs |-> TRUE]

\* lines 431-438: the stored parameters of a submission
Params(seriesids, startyear, endyear, registrationkey, survey_name, survey) ==
    [seriesids |-> seriesids, startyear |-> startyear, endyear |-> endyear,
     registrationkey |-> registrationkey, survey_name |-> survey_name,
     survey |-> survey]

store_results_keep_params(ss, data, log, params) ==
    Put(Put(Put(ss, "bls_data", data), "bls_log", log), "bls_params",
        Get(ss, "bls_params", params))

\* lines 429-438: data, log and params are stored together
store_results(ss, data, log, params) ==
    Put(Put(Put(ss, "bls_data", data), "bls_log", log), "bls_params", params)

handle_submission_arming_first(ss, fetch, params) ==
    IF fetch.raises THEN Put(ss, "show_balloons", TRUE)
    ELSE Put(store_results(ss, fetch.data, fetch.log, params),
             "show_balloons", TRUE)

\* lines 419-441: the session state a submission leaves; when get_bls_data
\* raises, the script stops before the first of the assignments
handle_submission(ss, fetch, params) ==
    IF fetch.raises THEN ss
    ELSE Put(store_results(ss, fetch.data, fetch.log, params),
             "show_balloons", TRUE)

\* lines 444-457: what the Result Presenter renders from the store
present(ss) ==
    IF Has(ss, "bls_data") /\ IsDataFrame(ss["bls_data"])
    THEN LET o == display_output(ss, ss["bls_data"], Get(ss, "bls_log", <<>>))
             c == display_code(ss["bls_data"],
                               ss["bls_params"]["registrationkey"])
         IN [rendered |-> o.rendered \cup c.rendered,
             ss |-> o.ss,
             api_key_shown |-> c.key,
             csv_survey |-> ss["bls_params"]["survey"]]
    ELSE [rendered |-> {}, ss |-> ss, api_key_shown |-> <<>>,
          csv_survey |-> ""]

\* the record of a pass that stopped before the builder returned
Aborted(key_input, bounds, dflt) ==
    [outcome |-> "slider_error", submitted |-> FALSE, key_input |-> key_input,
     returned |-> FALSE, registrationkey |-> <<>>, years |-> dflt,
     selection |-> <<>>, seriesids |-> <<>>, year_bounds |-> bounds,
     year_default |-> dflt, requests |-> <<>>, rendered |-> {},
     api_key_shown |-> <<>>, csv_survey |-> ""]

\* the text the key field holds on the next pass: the field is re-created
\* with the stored key as its value when the stored key changed
next_key_text(ss_before, ss_after, text) ==
    IF Get(ss_before, "user_registrationkey", <<>>)
           # ss_after["user_registrationkey"]
    THEN ss_after["user_registrationkey"] ELSE text

\* One execution of main(): survey selected in the selectbox, text in the key
\* field, slider and multiselect values (or their defaults when the widgets
\* were re-created), whether 'Get Data' was pressed, and what get_bls_data
\* does if it is called.
main(selected, text, reset, user_years, user_sel, submitted, fetch) ==
    LET sv == create_survey_picklist(load_surveys, selected)
        survey == sv[1]
        survey_name == sv[2]
        md == load_metadata(survey_name)
        minimum_year == md.survey_minimum_year
        maximum_year == md.survey_maximum_year
        series_picklist == prepare_series_picklist(md)
        ss_key == store_user_key(session_state, text)
        registrationkey == final_registrationkey(ss_key)
        dflt == slider_default(minimum_year, maximum_year)
        year_range == IF reset THEN dflt ELSE user_years
        sel == IF reset THEN <<1>> ELSE user_sel
        selected_seriesids ==
            IF reset THEN multiselect_default(series_picklist)
            ELSE SelectedEntries(series_picklist, user_sel)
        seriesids == extract_seriesids(selected_seriesids)
        startyear == year_range[1]
        endyear == year_range[2]
        calls == fetch_requested(submitted)
        completed == calls /\ ~fetch.raises
        params == Params(seriesids, startyear, endyear, registrationkey,
                         survey_name, survey)
        ss_sub == IF calls THEN handle_submission(ss_key, fetch, params)
                  ELSE ss_key
        shown == present(ss_sub)
        requests == IF calls
                    THEN <<Request(seriesids, startyear, endyear,
                                   registrationkey)>>
                    ELSE <<>>
        key_text == next_key_text(session_state, ss_key, text)
        bounds == <<minimum_year, maximum_year>>
    IN IF ~slider_accepts(minimum_year, maximum_year, dflt)
       THEN [session_state |-> ss_key,
             widgets |-> [survey |-> selected, key_text |-> key_text,
                          years |-> dflt, sel |-> <<1>>],
             out |-> Aborted(text, bounds, dflt),
             last_submission |-> last_submission,
             balloons_since_submit |-> balloons_since_submit]
       ELSE IF calls /\ fetch.raises
       THEN [session_state |-> ss_sub,
             widgets |-> [survey |-> selected, key_text |-> key_text,
                          years |-> year_range, sel |-> sel],
             out |-> [Aborted(text, bounds, dflt)
                      EXCEPT !.outcome = "fetch_error",
                             !.submitted = submitted,
                             !.returned = TRUE,
                             !.registrationkey = registrationkey,
                             !.years = year_range,
                             !.selection = selected_seriesids,
                             !.seriesids = seriesids,
                             !.requests = requests],
             last_submission |-> last_submission,
             balloons_since_submit |-> balloons_since_submit]
       ELSE [session_state |-> shown.ss,
             widgets |-> [survey |-> selected, key_text |-> key_text,
                          years |-> year_range, sel |-> sel],
             out |-> [outcome |-> "ok", submitted |-> submitted,
                      key_input |-> text, returned |-> TRUE,
                      registrationkey |-> registrationkey,
                      years |-> year_range,
                      selection |-> selected_seriesids,
                      seriesids |-> seriesids,
                      year_bounds |-> bounds,
                      year_default |-> dflt, requests |-> requests,
                      rendered |-> shown.rendered,
                      api_key_shown |-> shown.api_key_shown,
                      csv_survey |-> shown.csv_survey],
             last_submission |->
                 IF completed
                 THEN <<[params |-> params, data |-> fetch.data,
                         log |-> fetch.log]>>
                 ELSE last_submission,
             balloons_since_submit |->
                 LET base == IF completed THEN 0 ELSE balloons_since_submit
                 IN IF "balloons" \in shown.rendered /\ base < MaxBalloons
                    THEN base + 1 ELSE base]

\* the state a pass leaves
RenderPass(selected, text, reset, user_years, user_sel, submitted, fetch) ==
    \E r \in {main(selected, text, reset, user_years, user_sel, submitted,
                   fetch)} :
        /\ session_state' = r.session_state
        /\ widgets' = r.widgets
        /\ out' = r.out
        /\ last_submission' = r.last_submission
        /\ balloons_since_submit' = r.balloons_since_submit

-----------------------------------------------------------------------------
(* Initial state and user interactions *)

Init ==
    /\ secrets \in SecretsChoices
    /\ metadata \in MetadataChoices
    /\ session_state = EmptySession
    /\ widgets = [survey |-> options_survey[1], key_text |-> <<>>,
                  years |-> slider_default(
                      metadata[load_surveys[options_survey[1]]].survey_minimum_year,
                      metadata[load_surveys[options_survey[1]]].survey_maximum_year),
                  sel |-> <<1>>]
    /\ out = [Aborted(<<>>, <<0, 0>>, <<0, 0>>) EXCEPT !.outcome = "init"]
    /\ last_submission = <<>>
    /\ balloons_since_submit = 0

\* the script runs again with the widgets as they are (first load, download
\* button, browser refresh of the same session)
Rerender ==
    /\ RenderPass(widgets.survey, widgets.key_text, FALSE, widgets.years,
                  widgets.sel, FALSE, NoFetch)
    /\ UNCHANGED <<secrets, metadata>>

\* the user picks another survey in the selectbox: the slider and the
\* multiselect are created with the new survey's bounds and picklist
ChangeSurvey(s) ==
    /\ out.outcome # "init"
    /\ s # widgets.survey
    /\ RenderPass(s, widgets.key_text, TRUE, widgets.years, widgets.sel,
                  FALSE, NoFetch)
    /\ UNCHANGED <<secrets, metadata>>

\* the user edits the form and presses 'Get Data'
Submit ==
    /\ out.outcome \in {"ok", "fetch_error"}
    /\ \E sel \in Selections(prepare_series_picklist(
                      load_metadata(load_surveys[widgets.survey]))) :
         \E years \in YearChoices(out.year_bounds[1], out.year_bounds[2]) :
           \E text \in KeyInputs, fetch \in FetchOutcomes :
             RenderPass(widgets.survey, text, FALSE, years, sel, TRUE, fetch)
    /\ UNCHANGED <<secrets, metadata>>

Next ==
    \/ Rerender
    \/ \E s \in DOMAIN load_surveys : ChangeSurvey(s)
    \/ Submit

Spec == Init /\ [][Next]_vars

-----------------------------------------------------------------------------
(* Properties *)

\* the shared demo key the Query Builder falls back to
DemoKey == SecretsGet("bls_api_key", <<>>)

SuccessElements == {"banner", "balloons", "csv", "code"}

\* C1: on a pass that reaches the Result Presenter with a non-empty stored
\* log table, no success banner, balloons, CSV button or code panel is
\* rendered, whatever the stored data table holds.
C1_NoSuccessElementsWithLog ==
    (out.outcome = "ok" /\ Has(session_state, "bls_log")
        /\ ~Empty(session_state.bls_log))
    => out.rendered \cap SuccessElements = {}

\* C2: on every pass the key the Query Builder returns is the demo key when
\* the text in the key field is empty or blank, and the trimmed text otherwise.
C2_KeyFollowsCurrentInput ==
    out.returned =>
        out.registrationkey = IF Strip(out.key_input) = <<>> THEN DemoKey
                              ELSE Strip(out.key_input)

\* C3: for a survey with maximum_year - minimum_year < 5 the default year
\* range of the slider is (minimum_year, maximum_year).
C3_NarrowDefaultIsBounds ==
    (out.outcome # "init" /\ out.year_bounds[2] - out.year_bounds[1] < 5)
    => out.year_default = out.year_bounds

\* C4: after a submission whose log table is empty the balloons are rendered on
\* the pass of that submission and on no later pass until another submission:
\* balloons are rendered exactly on the passes that completed a submission
\* with an empty log, once per such submission, and the flag is false after
\* they were rendered.
C4_BalloonsOncePerSubmission ==
    /\ ("balloons" \in out.rendered)
         <=> (out.outcome = "ok" /\ out.submitted
                /\ Empty(session_state.bls_log))
    /\ ("balloons" \in out.rendered) => ~session_state.show_balloons
    /\ (last_submission # <<>> /\ Empty(last_submission[1].log))
         => (balloons_since_submit = 1 /\ ~session_state.show_balloons)
    /\ (last_submission # <<>> /\ ~Empty(last_submission[1].log))
         => balloons_since_submit = 0

\* C4 witness: a later pass without submission shows the successful result
\* again, without balloons.
C4_Witness ==
    /\ out.outcome = "ok" /\ ~out.submitted
    /\ last_submission # <<>> /\ Empty(last_submission[1].log)
    /\ "banner" \in out.rendered /\ "balloons" \notin out.rendered
    /\ balloons_since_submit = 1

\* C5: the stored data, log and params are those of the last completed
\* submission, data is never stored without params, and the survey
\* abbreviation the presenter uses is the one of that submission.
C5_StoreIsLastSubmission ==
    /\ Has(session_state, "bls_data") <=> last_submission # <<>>
    /\ Has(session_state, "bls_data") =>
         /\ Has(session_state, "bls_log") /\ Has(session_state, "bls_params")
         /\ session_state.bls_data = last_submission[1].data
         /\ session_state.bls_log = last_submission[1].log
         /\ session_state.bls_params = last_submission[1].params
    /\ ("csv" \in out.rendered)
         => out.csv_survey = last_submission[1].params.survey

\* C5 witness: the survey was changed after a submission and the presenter
\* shows the result under the submission's survey.
C5_Witness ==
    /\ out.outcome = "ok" /\ ~out.submitted /\ "csv" \in out.rendered
    /\ widgets.survey # session_state.bls_params.survey
    /\ out.csv_survey = session_state.bls_params.survey

\* C6: every request handed to get_bls_data carries at least one series id.
C6_RequestsCarrySeries ==
    \A i \in 1..Len(out.requests) : out.requests[i].seriesids # <<>>

\* C7: when the code panels are rendered and the stored key is the demo key,
\* the examples show the placeholder, and the demo key is never shown.
C7_DemoKeyRedacted ==
    ("code" \in out.rendered) =>
        /\ (session_state.bls_params.registrationkey = DemoKey
              => out.api_key_shown = Placeholder)
        /\ out.api_key_shown # DemoKey

\* C8: get_bls_data is called exactly once on a pass started by 'Get Data' and
\* not at all on any other pass, which leaves the stored result as it was.
C8_FetchOnlyOnSubmit ==
    [][/\ Len(out'.requests) = (IF out'.submitted THEN 1 ELSE 0)
       /\ ~out'.submitted =>
            /\ session_state'.bls_data = session_state.bls_data
            /\ session_state'.bls_log = session_state.bls_log
            /\ session_state'.bls_params = session_state.bls_params
            /\ Has(session_state', "bls_data") = Has(session_state, "bls_data")
            /\ last_submission' = last_submission]_vars

\* C8 witness: a pass without submission displays the stored data and sends
\* no request.
C8_Witness ==
    /\ out.outcome = "ok" /\ ~out.submitted
    /\ "data" \in out.rendered /\ out.requests = <<>>

\* C9: the series ids the Query Builder returns are, entry by entry and in
\* the order of the selection, the text before the entry's first colon.
C9_IdsBeforeFirstColon ==
    out.returned =>
        /\ Len(out.seriesids) = Len(out.selection)
        /\ \A i \in 1..Len(out.selection) :
             LET entry == out.selection[i]
                 id == out.seriesids[i]
             IN /\ Len(id) < Len(entry)
                /\ SubSeq(entry, 1, Len(id)) = id
                /\ entry[Len(id) + 1] = ":"
                /\ \A k \in 1..Len(id) : id[k] # ":"

\* C9 witness: two entries selected in reverse picklist order, one with
\* colons in its title.
C9_Witness ==
    /\ out.returned
    /\ out.selection = << <<"C", "2", ":", " ">>,
                          <<"C", "1", ":", " ", "a", ":", "b", ":">> >>
    /\ out.seriesids = << <<"C", "2">>, <<"C", "1">> >>

\* C10: for a survey with maximum_year - minimum_year >= 5 the default year
\* range is (maximum_year - 5, maximum_year) and lies within the bounds; the
\* bounds 1990..2024 give (2019, 2024).
C10_WideDefaultIsLastFive ==
    (out.outcome # "init" /\ out.year_bounds[2] - out.year_bounds[1] >= 5)
    => /\ out.year_default = <<out.year_bounds[2] - 5, out.year_bounds[2]>>
       /\ out.year_bounds[1] <= out.year_default[1]
       /\ out.year_default[1] <= out.year_default[2]
       /\ out.year_default[2] <= out.year_bounds[2]
       /\ out.outcome # "slider_error"
       /\ (out.year_bounds = <<1990, 2024>>
             => out.year_default = <<2019, 2024>>)

\* C10 witness: a survey of exactly five years' difference is rendered with
\* the default reaching down to its first year.
C10_Witness ==
    /\ out.outcome = "ok"
    /\ out.year_bounds[2] - out.year_bounds[1] = 5
    /\ out.year_default = out.year_bounds

\* C11: a submission during which get_bls_data raises leaves the stored data,
\* log and params as the previous completed submission left them (or absent),
\* and does not arm the show-animation flag.
C11_RaiseLeavesStore ==
    [][out'.outcome = "fetch_error" =>
         /\ \A k \in {"bls_data", "bls_log", "bls_params", "show_balloons"} :
              /\ Has(session_state', k) = Has(session_state, k)
              /\ session_state'[k] = session_state[k]
         /\ last_submission' = last_submission
         /\ Has(session_state', "bls_data") =>
              /\ session_state'.bls_data = last_submission[1].data
              /\ session_state'.bls_log = last_submission[1].log
              /\ session_state'.bls_params = last_submission[1].params]_vars

\* C11 witness: a submission raised after an earlier one had completed, and
\* the store still holds the earlier submission, whose series differ from
\* those of the failed request.
C11_Witness ==
    /\ out.outcome = "fetch_error" /\ Len(out.requests) = 1
    /\ Has(session_state, "bls_data") /\ last_submission # <<>>
    /\ session_state.bls_params = last_submission[1].params
    /\ session_state.bls_params.seriesids # out.seriesids

====
